---- MODULE Spec2Model ----
(***************************************************************************)
(* ArUco marker pose estimation: the pose resolver, the multi-marker       *)
(* fusion and the per-frame handler of the aruco-sample application.       *)
(*                                                                         *)
(* Numbers.  A JavaScript number is modelled by an exact value             *)
(*     c0 + c1*tau + c2*tau^2      with tau = 1e-6 and c0, c1, c2 rational *)
(* written <<c0, c1, c2>>.  Coefficients stay far below 1e6 in size, so    *)
(* the order of two values is the lexicographic order of their             *)
(* coefficients.  Products drop the terms in tau^3 and tau^4 (below 1e-18),*)
(* which is the only rounding of the model.  Math.PI is the rational       *)
(* 355/113; the trigonometric library functions are tables over the        *)
(* angles the model draws.                                                 *)
(***************************************************************************)
EXTENDS Integers, Sequences, FiniteSets, TLC

VARIABLES
    call,          \* a call of a function of lib/aruco.ts: [fn, ...arguments]
    ret,           \* its result, or Pending
    cvRef,         \* useMarkerDetection: cvRef.current, the OpenCV object or NULL
    warnedRef,     \* useMarkerDetection: warnedRef.current
    frameTimesRef, \* useMarkerDetection: frameTimesRef.current
    stateRef,      \* useMarkerDetection: stateRef.current
    poseResult,    \* PoseProvider: the shared pose, NULL until the first updatePose
    clock,         \* performance.now() / Date.now() at the last frame, in ms
    frameNo,       \* number of frames handed to handleFrame so far
    trace,         \* what the last handleFrame call did (observation only)
    active,        \* CameraView: the active prop of the last commit
    onFrame,       \* CameraView: whether the onFrame prop is given
    isStreaming,   \* CameraView: the isStreaming state of the last commit
    queued,        \* CameraView: the setIsStreaming update waiting for a render
    animFrameRef,  \* CameraView: animFrameRef.current, the id of the last request
    nextId,        \* number of requestAnimationFrame calls so far (ids are 1, 2, ...)
    pendingFrames, \* the browser's animation-frame callbacks not yet run or cancelled
    loopEffect,    \* CameraView: whether the frame-loop effect has a cleanup to run
    starting,      \* CameraView: startCamera calls that have not finished
    frameLog,      \* what the last processFrame call did (observation only)
    status,        \* OpenCVProvider: the status state
    error,         \* OpenCVProvider: the error state, NULL or [message]
    loadedCv,      \* OpenCVProvider: the cv state, NULL or the OpenCV object
    phase,         \* OpenCVProvider: "unmounted", "rendered" (effect not yet run), "mounted"
    mounts,        \* number of OpenCVProvider instances created so far
    timer,         \* the interval id the effect's cleanup clears, 0 if it has none
    timers,        \* the browser's active intervals
    nextTimer,     \* number of setInterval calls so far (ids are 1, 2, ...)
    elapsed,       \* Date.now() - start at the last tick of the effect's interval
    winCv,         \* window.cv: "none", "object" (no Mat constructor yet) or "ready"
    scriptInjected, \* the module-level flag of ensureScriptTag
    scriptTags     \* number of script tags with the OpenCV URL in the document

harness == <<call, ret>>

hook == <<cvRef, warnedRef, frameTimesRef, stateRef, poseResult, clock, frameNo, trace>>

view == <<active, onFrame, isStreaming, queued, animFrameRef, nextId, pendingFrames,
          loopEffect, starting, frameLog>>

loader == <<status, error, loadedCv, phase, mounts, timer, timers, nextTimer, elapsed,
            winCv, scriptInjected, scriptTags>>

vars == <<call, ret, cvRef, warnedRef, frameTimesRef, stateRef, poseResult, clock,
          frameNo, trace, active, onFrame, isStreaming, queued, animFrameRef, nextId,
          pendingFrames, loopEffect, starting, frameLog, status, error, loadedCv, phase,
          mounts, timer, timers, nextTimer, elapsed, winCv, scriptInjected, scriptTags>>

----------------------------------------------------------------------------
(* Rationals in lowest terms with a positive denominator.                  *)

Abs(i) == IF i < 0 THEN -i ELSE i

RECURSIVE Gcd(_, _)
Gcd(a, b) == IF b = 0 THEN a ELSE Gcd(b, a % b)

Q(n, d) ==
    LET g == Gcd(Abs(n), Abs(d))
        s == IF d < 0 THEN -1 ELSE 1
    IN  [n |-> s * (n \div g), d |-> s * (d \div g)]

QAdd(a, b) ==
    LET g == Gcd(a.d, b.d)
    IN  Q(a.n * (b.d \div g) + b.n * (a.d \div g), (a.d \div g) * b.d)

QMul(a, b) ==
    LET g1 == Gcd(Abs(a.n), b.d)
        g2 == Gcd(Abs(b.n), a.d)
    IN  Q((a.n \div g1) * (b.n \div g2), (a.d \div g2) * (b.d \div g1))

QNeg(a) == [n |-> -a.n, d |-> a.d]

QInv(a) == Q(a.d, a.n)

QSign(a) == IF a.n > 0 THEN 1 ELSE IF a.n < 0 THEN -1 ELSE 0

ISqrt(n) == CHOOSE r \in 0..n : r * r = n

QSqrt(a) == [n |-> ISqrt(a.n), d |-> ISqrt(a.d)]

----------------------------------------------------------------------------
(* JavaScript numbers and their operators.                                 *)

Num(n, d) == <<Q(n, d), Q(0, 1), Q(0, 1)>>

Micro(n, d) == <<Q(0, 1), Q(n, d), Q(0, 1)>>

Zero == <<[n |-> 0, d |-> 1], [n |-> 0, d |-> 1], [n |-> 0, d |-> 1]>>

One == <<[n |-> 1, d |-> 1], [n |-> 0, d |-> 1], [n |-> 0, d |-> 1]>>

NAdd(a, b) == <<QAdd(a[1], b[1]), QAdd(a[2], b[2]), QAdd(a[3], b[3])>>

NNeg(a) == <<QNeg(a[1]), QNeg(a[2]), QNeg(a[3])>>

NSub(a, b) == NAdd(a, NNeg(b))

NMul(a, b) ==
    <<QMul(a[1], b[1]),
      QAdd(QMul(a[1], b[2]), QMul(a[2], b[1])),
      QAdd(QMul(a[1], b[3]), QAdd(QMul(a[2], b[2]), QMul(a[3], b[1])))>>

\* a / b for a divisor b without tau part (a count, 2, Math.PI)
NDiv(a, b) ==
    LET inv == QInv(b[1])
    IN  <<QMul(a[1], inv), QMul(a[2], inv), QMul(a[3], inv)>>

NSign(a) ==
    IF QSign(a[1]) # 0 THEN QSign(a[1])
    ELSE IF QSign(a[2]) # 0 THEN QSign(a[2])
    ELSE QSign(a[3])

NLt(a, b) == NSign(NSub(a, b)) < 0

\* index of the leading coefficient (1, 2, 3), 0 for the number zero
Level(a) ==
    IF QSign(a[1]) # 0 THEN 1
    ELSE IF QSign(a[2]) # 0 THEN 2
    ELSE IF QSign(a[3]) # 0 THEN 3
    ELSE 0

NAbs(a) == IF NSign(a) < 0 THEN NNeg(a) ELSE a

\* at most one coefficient is not zero
Mono(a) == Cardinality({k \in 1..3 : QSign(a[k]) # 0}) <= 1

\* q * tau^j for j = 1, 2
TauPow(q, j) == IF j = 1 THEN <<Q(0, 1), q, Q(0, 1)>> ELSE <<Q(0, 1), Q(0, 1), q>>

\* Math.sqrt of a non-negative number whose leading coefficient is the square
\* of a rational: the series of the square root up to tau^2.  (A sum of two
\* squares never has its leading coefficient at tau^1.)
MathSqrt(a) ==
    CASE Level(a) = 0 -> Zero
      [] Level(a) = 1 ->
            LET s0 == QSqrt(a[1])
                h  == QInv(QMul(Q(2, 1), s0))
                s1 == QMul(a[2], h)
                s2 == QMul(QAdd(a[3], QNeg(QMul(s1, s1))), h)
            IN  <<s0, s1, s2>>
      [] Level(a) = 3 -> <<Q(0, 1), QSqrt(a[3]), Q(0, 1)>>

\* Math.PI
PI == <<[n |-> 355, d |-> 113], [n |-> 0, d |-> 1], [n |-> 0, d |-> 1]>>

\* the angle of the 3-4-5 triangle, atan(3/4), in radians
Atan34 == <<[n |-> 1287, d |-> 2000], [n |-> 0, d |-> 1], [n |-> 0, d |-> 1]>>

\* PI / 2 and PI / 4
HalfPi == <<[n |-> 355, d |-> 226], [n |-> 0, d |-> 1], [n |-> 0, d |-> 1]>>

QuarterPi == <<[n |-> 355, d |-> 452], [n |-> 0, d |-> 1], [n |-> 0, d |-> 1]>>

\* atan2 in the first quadrant, for ay >= 0, ax >= 0 with one non-zero
\* coefficient each (at the indices ly and lx): exact on the axes, the diagonal
\* and the 3-4-5 directions, and r - r^3/3 + ... = r up to tau^2 when one
\* argument is 1e-6 times the other
AtanRatio(r) ==
    CASE r = [n |-> 1, d |-> 1] -> QuarterPi
      [] r = [n |-> 3, d |-> 4] -> Atan34
      [] r = [n |-> 4, d |-> 3] -> NSub(HalfPi, Atan34)

AtanLevels(ay, ax, ly, lx) ==
    CASE ly = 0 -> Zero
      [] ly # 0 /\ lx = 0 -> HalfPi
      [] ly # 0 /\ lx # 0 /\ ly = lx /\ Mono(ay) /\ Mono(ax) ->
            AtanRatio(QMul(ay[ly], QInv(ax[lx])))
      [] ly # 0 /\ lx # 0 /\ ly > lx /\ Mono(ay) /\ Mono(ax) ->
            TauPow(QMul(ay[ly], QInv(ax[lx])), ly - lx)
      [] ly # 0 /\ lx # 0 /\ ly < lx /\ Mono(ay) /\ Mono(ax) ->
            NSub(HalfPi, TauPow(QMul(ax[lx], QInv(ay[ly])), lx - ly))

AtanQuadrant(ay, ax) == AtanLevels(ay, ax, Level(ay), Level(ax))

\* the first-quadrant angle base moved to the quadrant of (x, y)
Quadrant(base, y, x) ==
    IF NSign(x) < 0
    THEN IF NSign(y) < 0 THEN NNeg(NSub(PI, base)) ELSE NSub(PI, base)
    ELSE IF NSign(y) < 0 THEN NNeg(base) ELSE base

\* Math.atan2(y, x), in (-PI, PI]
MathAtan2(y, x) == Quadrant(AtanQuadrant(NAbs(y), NAbs(x)), y, x)

\* Math.cos and Math.sin: the rows <<an, ad, cn, cd, sn, sd>> give, for the angle
\* an/ad (in radians, with PI = 355/113), its cosine cn/cd and its sine sn/sd: the
\* directions of the axes and of the 3-4-5 triangle in the four quadrants
TrigRows ==
    { <<0, 1, 1, 1, 0, 1>>,
      <<1287, 2000, 4, 5, 3, 5>>,
      <<209569, 226000, 3, 5, 4, 5>>,
      <<355, 226, 0, 1, 1, 1>>,
      <<500431, 226000, -3, 5, 4, 5>>,
      <<564569, 226000, -4, 5, 3, 5>>,
      <<355, 113, -1, 1, 0, 1>>,
      <<-1287, 2000, 4, 5, -3, 5>>,
      <<-209569, 226000, 3, 5, -4, 5>>,
      <<-355, 226, 0, 1, -1, 1>>,
      <<-500431, 226000, -3, 5, -4, 5>>,
      <<-564569, 226000, -4, 5, -3, 5>> }

TrigRow(a) ==
    CHOOSE r \in TrigRows :
        a = <<[n |-> r[1], d |-> r[2]], [n |-> 0, d |-> 1], [n |-> 0, d |-> 1]>>

\* the sine taken for the cosine
SinForCos(a) == <<[n |-> TrigRow(a)[5], d |-> TrigRow(a)[6]], [n |-> 0, d |-> 1], [n |-> 0, d |-> 1]>>

MathCos(a) == <<[n |-> TrigRow(a)[3], d |-> TrigRow(a)[4]], [n |-> 0, d |-> 1], [n |-> 0, d |-> 1]>>

MathSin(a) == <<[n |-> TrigRow(a)[5], d |-> TrigRow(a)[6]], [n |-> 0, d |-> 1], [n |-> 0, d |-> 1]>>

\* the angles of the table
Angles ==
    {<<[n |-> r[1], d |-> r[2]], [n |-> 0, d |-> 1], [n |-> 0, d |-> 1]>> : r \in TrigRows}

\* the table agrees with Math.atan2: each angle is the atan2 of its sine and cosine
TrigRowsAgree ==
    \A r \in TrigRows :
        MathAtan2(Num(r[5], r[6]), Num(r[3], r[4])) = Num(r[1], r[2])

----------------------------------------------------------------------------
(* lib/constants.ts                                                        *)

CUBE_SIZE == Num(12, 100)

MARKER_SIZE == Num(9, 100)

HALF_CUBE == NDiv(CUBE_SIZE, Num(2, 1))

P3(x, y, z) == [x |-> x, y |-> y, z |-> z]

MARKER_DEFINITIONS ==
    << [id |-> 0, face |-> "front",
        normal |-> P3(Zero, Zero, One),
        center |-> P3(Zero, Zero, HALF_CUBE),
        rotationToWorld |-> P3(Zero, Zero, Zero)],
       [id |-> 1, face |-> "top",
        normal |-> P3(Zero, One, Zero),
        center |-> P3(Zero, HALF_CUBE, Zero),
        rotationToWorld |-> P3(NDiv(NNeg(PI), Num(2, 1)), Zero, Zero)],
       [id |-> 2, face |-> "right",
        normal |-> P3(One, Zero, Zero),
        center |-> P3(HALF_CUBE, Zero, Zero),
        rotationToWorld |-> P3(Zero, NDiv(NNeg(PI), Num(2, 1)), Zero)],
       [id |-> 3, face |-> "back",
        normal |-> P3(Zero, Zero, NNeg(One)),
        center |-> P3(Zero, Zero, NNeg(HALF_CUBE)),
        rotationToWorld |-> P3(Zero, PI, Zero)],
       [id |-> 4, face |-> "left",
        normal |-> P3(NNeg(One), Zero, Zero),
        center |-> P3(NNeg(HALF_CUBE), Zero, Zero),
        rotationToWorld |-> P3(Zero, NDiv(PI, Num(2, 1)), Zero)] >>

----------------------------------------------------------------------------
(* lib/aruco.ts: coordinate transform helpers.  A Float64Array of nine     *)
(* entries is a function on 0..8, row-major as in the source.              *)

markerToWorld(point, markerCenter, rot) ==
    LET rx == rot.x  ry == rot.y  rz == rot.z
        cx == MathCos(rx)  sx == MathSin(rx)
        cy == MathCos(ry)  sy == MathSin(ry)
        cz == MathCos(rz)  sz == MathSin(rz)
        x  == point.x  y == point.y  z == point.z
        \* Apply Rx
        y1 == NSub(NMul(cx, y), NMul(sx, z))
        z1 == NAdd(NMul(sx, y), NMul(cx, z))
        \* Apply Ry
        x2 == NAdd(NMul(cy, x), NMul(sy, z1))
        z2 == NAdd(NMul(NNeg(sy), x), NMul(cy, z1))
        \* Apply Rz
        x3 == NSub(NMul(cz, x2), NMul(sz, y1))
        y3 == NAdd(NMul(sz, x2), NMul(cz, y1))
    IN  [x |-> NAdd(x3, markerCenter.x),
         y |-> NAdd(y3, markerCenter.y),
         z |-> NAdd(z2, markerCenter.z)]

\* the threshold 1e-6 of the singular branch
SINGULAR_EPS == Micro(1, 1)

RAD2DEG == NDiv(Num(180, 1), PI)

\* the angles returned in radians
RotationMatrixToEulerRadians(R) ==
    LET sy       == MathSqrt(NAdd(NMul(R[0], R[0]), NMul(R[3], R[3])))
        singular == NLt(sy, SINGULAR_EPS)
    IN  [x |-> IF ~singular THEN MathAtan2(R[7], R[8]) ELSE MathAtan2(NNeg(R[5]), R[4]),
         y |-> MathAtan2(NNeg(R[6]), sy),
         z |-> IF ~singular THEN MathAtan2(R[3], R[0]) ELSE Zero]

\* the singular branch taken for sy <= 1e-6 as well
RotationMatrixToEulerInclusive(R) ==
    LET sy       == MathSqrt(NAdd(NMul(R[0], R[0]), NMul(R[3], R[3])))
        singular == ~NLt(SINGULAR_EPS, sy)
        x == IF ~singular THEN MathAtan2(R[7], R[8]) ELSE MathAtan2(NNeg(R[5]), R[4])
        y == MathAtan2(NNeg(R[6]), sy)
        z == IF ~singular THEN MathAtan2(R[3], R[0]) ELSE Zero
    IN  [x |-> NMul(x, RAD2DEG), y |-> NMul(y, RAD2DEG), z |-> NMul(z, RAD2DEG)]

rotationMatrixToEuler(R) ==
    LET sy       == MathSqrt(NAdd(NMul(R[0], R[0]), NMul(R[3], R[3])))
        singular == NLt(sy, SINGULAR_EPS)
        x == IF ~singular THEN MathAtan2(R[7], R[8]) ELSE MathAtan2(NNeg(R[5]), R[4])
        y == IF ~singular THEN MathAtan2(NNeg(R[6]), sy) ELSE MathAtan2(NNeg(R[6]), sy)
        z == IF ~singular THEN MathAtan2(R[3], R[0]) ELSE Zero
    IN  [x |-> NMul(x, RAD2DEG), y |-> NMul(y, RAD2DEG), z |-> NMul(z, RAD2DEG)]

\* Step 1: RtC = R^T * diag(1, -1, -1)
RtC(R) ==
    [k \in 0..8 |->
        LET i == k \div 3
        IN  CASE k % 3 = 0 -> R[0 * 3 + i]
              [] k % 3 = 1 -> NNeg(R[1 * 3 + i])
              [] k % 3 = 2 -> NNeg(R[2 * 3 + i])]

\* the matrix of the angles built in the order Rx * Ry * Rz
Rm2wReversed(markerRot) ==
    LET cx == MathCos(markerRot.x)  sx == MathSin(markerRot.x)
        cy == MathCos(markerRot.y)  sy == MathSin(markerRot.y)
        cz == MathCos(markerRot.z)  sz == MathSin(markerRot.z)
    IN  [k \in 0..8 |->
            CASE k = 0 -> NMul(cy, cz)
              [] k = 1 -> NNeg(NMul(cy, sz))
              [] k = 2 -> sy
              [] k = 3 -> NAdd(NMul(NMul(sx, sy), cz), NMul(cx, sz))
              [] k = 4 -> NSub(NMul(cx, cz), NMul(NMul(sx, sy), sz))
              [] k = 5 -> NNeg(NMul(sx, cy))
              [] k = 6 -> NSub(NMul(sx, sz), NMul(NMul(cx, sy), cz))
              [] k = 7 -> NAdd(NMul(NMul(cx, sy), sz), NMul(sx, cz))
              [] k = 8 -> NMul(cx, cy)]

\* Step 2: R_m2w = Rz * Ry * Rx from the marker's Euler angles
Rm2w(markerRot) ==
    LET rx == markerRot.x  ry == markerRot.y  rz == markerRot.z
        cx == MathCos(rx)  sx == MathSin(rx)
        cy == MathCos(ry)  sy == MathSin(ry)
        cz == MathCos(rz)  sz == MathSin(rz)
        m00 == NMul(cz, cy)
        m01 == NSub(NMul(NMul(cz, sy), sx), NMul(sz, cx))
        m02 == NAdd(NMul(NMul(cz, sy), cx), NMul(sz, sx))
        m10 == NMul(sz, cy)
        m11 == NAdd(NMul(NMul(sz, sy), sx), NMul(cz, cx))
        m12 == NSub(NMul(NMul(sz, sy), cx), NMul(cz, sx))
        m20 == NNeg(sy)
        m21 == NMul(cy, sx)
        m22 == NMul(cy, cx)
    IN  [k \in 0..8 |->
            CASE k = 0 -> m00 [] k = 1 -> m01 [] k = 2 -> m02
              [] k = 3 -> m10 [] k = 4 -> m11 [] k = 5 -> m12
              [] k = 6 -> m20 [] k = 7 -> m21 [] k = 8 -> m22]

\* out = a * b for 3x3 row-major arrays
Product(a, b) ==
    [k \in 0..8 |->
        LET i == k \div 3
            j == k % 3
        IN  NAdd(NAdd(NMul(a[i * 3 + 0], b[0 * 3 + j]),
                      NMul(a[i * 3 + 1], b[1 * 3 + j])),
                 NMul(a[i * 3 + 2], b[2 * 3 + j]))]

\* the product taken in the other order, RtC * R_m2w
CameraRotationReversed(R, markerRot) == Product(RtC(R), Rm2w(markerRot))

\* Step 3: result = R_m2w * RtC
cameraRotationInWorld(R, markerRot) == Product(Rm2w(markerRot), RtC(R))

----------------------------------------------------------------------------
(* lib/aruco.ts: single-marker pose estimation.                            *)
(*                                                                         *)
(* The OpenCV object cv is modelled by what its calls do during one call   *)
(* of the function: cv.faultAt is the number of the OpenCV call that       *)
(* raises (0: none; 1..7 the seven Mat constructions, 8 solvePnP,          *)
(* 9 Rodrigues), cv.ok is what solvePnP returns, cv.rvec and cv.tvec are   *)
(* what it writes, and cv.rotMat is the matrix Rodrigues writes for        *)
(* cv.rvec.  The result records the value returned or that the call        *)
(* raised, and the log of the OpenCV calls made.                           *)

NULL == [null |-> TRUE]

HALF == NDiv(MARKER_SIZE, Num(2, 1))

\* a lookup that answers with the first definition when no id matches
FindDefinitionOrFirst(id) ==
    LET hits == {i \in 1..Len(MARKER_DEFINITIONS) : MARKER_DEFINITIONS[i].id = id}
    IN  MARKER_DEFINITIONS[IF hits = {} THEN 1 ELSE CHOOSE i \in hits : \A j \in hits : i <= j]

\* MARKER_DEFINITIONS.find((m) => m.id === id): the first match, or NULL
FindDefinition(id) ==
    LET hits == {i \in 1..Len(MARKER_DEFINITIONS) : MARKER_DEFINITIONS[i].id = id}
    IN  IF hits = {} THEN NULL
        ELSE MARKER_DEFINITIONS[CHOOSE i \in hits : \A j \in hits : i <= j]

\* the Mats of estimateSingleMarkerPose, in the order they are constructed
PoseMats ==
    <<"objectPoints", "imagePoints", "cameraMat", "distCoeffs", "rvec", "tvec", "rotMat">>

NewLog(n) == [i \in 1..n |-> <<"new", PoseMats[i]>>]

\* the finally block
DeleteLog == [i \in 1..Len(PoseMats) |-> <<"delete", PoseMats[i]>>]

Returned(v, log) == [thrown |-> FALSE, value |-> v, log |-> log]

Raised(log) == [thrown |-> TRUE, value |-> NULL, log |-> log]

\* the OpenCV calls up to and including solvePnP
SolveLog(marker) == NewLog(Len(PoseMats)) \o <<<<"solvePnP", marker.corners>>>>

\* the estimation with the camera position taken as -R * t, R not transposed
PoseFromUntransposed(cv, marker, def) ==
    LET tv == [i \in 0..2 |-> cv.tvec[i]]
        R  == cv.rotMat
        camInMarker ==
            [x |-> NNeg(NAdd(NAdd(NMul(R[0], tv[0]), NMul(R[1], tv[1])), NMul(R[2], tv[2]))),
             y |-> NNeg(NAdd(NAdd(NMul(R[3], tv[0]), NMul(R[4], tv[1])), NMul(R[5], tv[2]))),
             z |-> NNeg(NAdd(NAdd(NMul(R[6], tv[0]), NMul(R[7], tv[1])), NMul(R[8], tv[2])))]
    IN  [position |-> markerToWorld(camInMarker, def.center, def.rotationToWorld),
         rotation |-> rotationMatrixToEuler(cameraRotationInWorld(R, def.rotationToWorld)),
         rvec     |-> [i \in 0..2 |-> cv.rvec[i]],
         tvec     |-> tv,
         markerId |-> marker.id]

\* the estimation computed from rvec, tvec and the matrix Rodrigues wrote
PoseFrom(cv, marker, def) ==
    LET rv == [i \in 0..2 |-> cv.rvec[i]]
        tv == [i \in 0..2 |-> cv.tvec[i]]
        R  == cv.rotMat
        \* Camera position in marker frame: -R^T * t
        camInMarker ==
            [x |-> NNeg(NAdd(NAdd(NMul(R[0], tv[0]), NMul(R[3], tv[1])),
                             NMul(R[6], tv[2]))),
             y |-> NNeg(NAdd(NAdd(NMul(R[1], tv[0]), NMul(R[4], tv[1])),
                             NMul(R[7], tv[2]))),
             z |-> NNeg(NAdd(NAdd(NMul(R[2], tv[0]), NMul(R[5], tv[1])),
                             NMul(R[8], tv[2])))]
        worldPos    == markerToWorld(camInMarker, def.center, def.rotationToWorld)
        worldRotMat == cameraRotationInWorld(R, def.rotationToWorld)
        worldRot    == rotationMatrixToEuler(worldRotMat)
    IN  [position |-> worldPos,
         rotation |-> worldRot,
         rvec     |-> rv,
         tvec     |-> tv,
         markerId |-> marker.id]

\* a try block that goes on after solvePnP returned false
TryBlockIgnoringOk(cv, marker, def) ==
    IF cv.faultAt = 8 THEN Raised(SolveLog(marker) \o DeleteLog)
    ELSE IF cv.faultAt = 9
        THEN Raised(SolveLog(marker) \o <<<<"Rodrigues">>>> \o DeleteLog)
    ELSE Returned(PoseFrom(cv, marker, def),
                  SolveLog(marker) \o <<<<"Rodrigues">>>> \o DeleteLog)

\* try { ... } finally { ... }: there is no catch, so what solvePnP or Rodrigues
\* raises leaves the function once the finally block has run
TryBlock(cv, marker, def) ==
    IF cv.faultAt = 8 THEN Raised(SolveLog(marker) \o DeleteLog)
    ELSE IF ~cv.ok THEN Returned(NULL, SolveLog(marker) \o DeleteLog)
    ELSE IF cv.faultAt = 9
        THEN Raised(SolveLog(marker) \o <<<<"Rodrigues">>>> \o DeleteLog)
    ELSE Returned(PoseFrom(cv, marker, def),
                  SolveLog(marker) \o <<<<"Rodrigues">>>> \o DeleteLog)

\* a lookup that falls back to the first definition of the table
EstimateWithFallback(cv, marker) ==
    LET def == FindDefinition(marker.id)
    IN  IF cv.faultAt \in 1..Len(PoseMats) THEN Raised(NewLog(cv.faultAt - 1))
        ELSE TryBlock(cv, marker, IF def = NULL THEN MARKER_DEFINITIONS[1] ELSE def)

\* a try block with catch { return null }
EstimateCatching(cv, marker) ==
    LET def == FindDefinition(marker.id)
        out == TryBlock(cv, marker, def)
    IN  IF def = NULL THEN Returned(NULL, <<>>)
        ELSE IF cv.faultAt \in 1..Len(PoseMats) THEN Raised(NewLog(cv.faultAt - 1))
        ELSE IF out.thrown THEN Returned(NULL, out.log)
        ELSE out

estimateSingleMarkerPose(cv, marker) ==
    LET def == FindDefinition(marker.id)
    IN  IF def = NULL THEN Returned(NULL, <<>>)
        ELSE IF cv.faultAt \in 1..Len(PoseMats) THEN Raised(NewLog(cv.faultAt - 1))
        ELSE TryBlock(cv, marker, def)

----------------------------------------------------------------------------
(* lib/aruco.ts: pose fusion.                                              *)

\* a running sum of angles kept in (-180, 180]
RECURSIVE ReduceWrapped(_, _, _)
ReduceWrapped(values, i, s) ==
    IF i > Len(values) THEN s
    ELSE LET t == NAdd(s, values[i])
         IN  ReduceWrapped(values, i + 1,
                 IF NLt(Num(180, 1), t) THEN NSub(t, Num(360, 1))
                 ELSE IF ~NLt(Num(-180, 1), t) THEN NAdd(t, Num(360, 1))
                 ELSE t)

\* a sum that leaves out the element at index i
RECURSIVE ReduceSkipping(_, _, _)
ReduceSkipping(values, i, s) ==
    IF i + 1 > Len(values) THEN s
    ELSE ReduceSkipping(values, i + 1, NAdd(s, values[i + 1]))

\* values.reduce((s, v) => s + v, s) from index i on: the running sum, left to right
RECURSIVE Reduce(_, _, _)
Reduce(values, i, s) ==
    IF i > Len(values) THEN s ELSE Reduce(values, i + 1, NAdd(s, values[i]))

\* poses.reduce((s, p) => s + p[field][axis], 0) / n
Mean(poses, field, axis) ==
    NDiv(Reduce([i \in 1..Len(poses) |-> poses[i][field][axis]], 1, Zero),
         Num(Len(poses), 1))

\* the ids of the estimations with repetitions left out
RECURSIVE DistinctMarkerIds(_)
DistinctMarkerIds(poses) ==
    IF poses = <<>> THEN <<>>
    ELSE LET front == DistinctMarkerIds(SubSeq(poses, 1, Len(poses) - 1))
             id    == poses[Len(poses)].markerId
         IN  IF \E k \in 1..Len(front) : front[k] = id THEN front ELSE Append(front, id)

\* poses.map((p) => p.markerId)
MarkerIds(poses) == [i \in 1..Len(poses) |-> poses[i].markerId]

\* 0 / 0
NaN == <<[n |-> 0, d |-> 0], [n |-> 0, d |-> 1], [n |-> 0, d |-> 1]>>

\* fusePoses without the guard for the empty list
FusePosesUnguarded(poses, now) ==
    LET M(field, axis) == IF Len(poses) = 0 THEN NaN ELSE Mean(poses, field, axis)
    IN  [poses             |-> poses,
         cameraPosition    |-> P3(M("position", "x"), M("position", "y"), M("position", "z")),
         cameraRotation    |-> P3(M("rotation", "x"), M("rotation", "y"), M("rotation", "z")),
         detectedMarkerIds |-> MarkerIds(poses),
         timestamp         |-> now]

fusePoses(poses, now) ==
    IF Len(poses) = 0 THEN
        [poses             |-> <<>>,
         cameraPosition    |-> P3(Zero, Zero, Zero),
         cameraRotation    |-> P3(Zero, Zero, Zero),
         detectedMarkerIds |-> <<>>,
         timestamp         |-> now]
    ELSE
        LET avgPos ==
                [x |-> Mean(poses, "position", "x"),
                 y |-> Mean(poses, "position", "y"),
                 z |-> Mean(poses, "position", "z")]
            avgRot ==
                [x |-> Mean(poses, "rotation", "x"),
                 y |-> Mean(poses, "rotation", "y"),
                 z |-> Mean(poses, "rotation", "z")]
        IN  [poses             |-> poses,
             cameraPosition    |-> avgPos,
             cameraRotation    |-> avgRot,
             detectedMarkerIds |-> MarkerIds(poses),
             timestamp         |-> now]

----------------------------------------------------------------------------
(* lib/aruco.ts: availability check and marker detection.                  *)
(*                                                                         *)
(* An OpenCV object is a record of the constructors it has.  During one    *)
(* call of detectMarkers, cv.faultAt is the number of the OpenCV call that *)
(* raises (0: none; 1 matFromImageData, 2..4 the constructions of gray,    *)
(* corners and ids, 5 cvtColor, 6 getPredefinedDictionary, 7..9 the        *)
(* constructions of the parameters, the refine parameters and the          *)
(* detector, 10 detector.detectMarkers) and cv.found is the list of        *)
(* markers the detector writes to ids and corners.                         *)

\* a check that takes every OpenCV object for one with the ArUco API
IsArucoAvailableAlways(cv) == TRUE

isArucoAvailable(cv) ==
    /\ cv.aruco_ArucoDetector
    /\ cv.aruco_Dictionary
    /\ cv.aruco_DetectorParameters

FrameMats == <<"src", "gray", "corners", "ids">>

DetectorObjects == <<"dictionary", "parameters", "refineParams", "detector">>

Reverse(q) == [i \in 1..Len(q) |-> q[Len(q) + 1 - i]]

News(names, n) == [i \in 1..n |-> <<"new", names[i]>>]

Deletes(names) == [i \in 1..Len(names) |-> <<"delete", names[i]>>]

RECURSIVE CornerLog(_)
CornerLog(n) ==
    IF n = 0 THEN <<>>
    ELSE CornerLog(n - 1) \o <<<<"new", "cornerMat">>, <<"delete", "cornerMat">>>>

detectMarkers(cv) ==
    IF cv.faultAt \in 1..4 THEN Raised(News(FrameMats, cv.faultAt - 1))
    ELSE
    LET outer   == News(FrameMats, 4)
        finally == Deletes(FrameMats)
    IN  IF cv.faultAt = 5 THEN Raised(outer \o <<<<"cvtColor">>>> \o finally)
        ELSE IF cv.faultAt \in 6..9
            THEN Raised(outer \o <<<<"cvtColor">>>>
                        \o News(DetectorObjects, cv.faultAt - 6) \o finally)
        ELSE
        LET inner == outer \o <<<<"cvtColor">>>> \o News(DetectorObjects, 4)
                     \o <<<<"detectMarkers">>>> \o Deletes(Reverse(DetectorObjects))
        IN  IF cv.faultAt = 10 THEN Raised(inner \o finally)
            ELSE Returned([i \in 1..Len(cv.found) |->
                               [id |-> cv.found[i].id, corners |-> cv.found[i].corners]],
                          inner \o CornerLog(Len(cv.found)) \o finally)

----------------------------------------------------------------------------
(* Inputs of the pure functions.                                           *)

\* the longest list of markers the detector reports in a frame
MaxDetections == 2

\* the longest list of estimations handed to fusePoses
MaxPoses == 3

Arr3(a, b, c) == [i \in 0..2 |-> <<a, b, c>>[i + 1]]

Arr9(t) == [i \in 0..8 |-> t[i + 1]]

\* marker-local points and marker centres for markerToWorld
PointSamples ==
    {P3(x, y, z) : x \in {Zero, Num(1, 2)}, y \in {Num(-3, 10), One}, z \in {Zero, Num(2, 1)}}

CenterSamples ==
    {MARKER_DEFINITIONS[i].center : i \in 1..Len(MARKER_DEFINITIONS)}
        \cup {P3(Num(1, 10), Num(-1, 5), Num(2, 1))}

RotSamples ==
    LET A == {Zero, NDiv(NNeg(PI), Num(2, 1)), PI, Atan34}
    IN  {P3(x, y, z) : x \in A, y \in A, z \in A}

\* Euler angles in radians for the conversions: every table angle as roll and
\* yaw, pitches on both sides of zero and beyond 89 degrees
EulerSamples ==
    {P3(x, y, z) :
        x \in {Zero, Atan34, NDiv(NNeg(PI), Num(2, 1)), NSub(PI, Atan34), PI},
        y \in {Zero, Atan34, NNeg(Atan34), NSub(Atan34, HalfPi), HalfPi},
        z \in {Zero, NNeg(Atan34), HalfPi, NSub(Atan34, PI)}}

\* marker-to-camera rotations for cameraRotationInWorld: the identity, the
\* marker facing the camera (diag(1, -1, -1)), a rotation about X and one about Z
CameraRotSamples ==
    {Arr9(<<One, Zero, Zero, Zero, One, Zero, Zero, Zero, One>>),
     Arr9(<<One, Zero, Zero, Zero, NNeg(One), Zero, Zero, Zero, NNeg(One)>>),
     Arr9(<<One, Zero, Zero, Zero, Num(4, 5), Num(-3, 5), Zero, Num(3, 5), Num(4, 5)>>),
     Arr9(<<Num(3, 5), Num(-4, 5), Zero, Num(4, 5), Num(3, 5), Zero, Zero, Zero, One>>)}

\* arrays for rotationMatrixToEuler: rotation matrices, and arrays whose first
\* column is about 1e-6 long, on both sides of the threshold and on it
ColumnSamples ==
    {<<One, Zero>>, <<Zero, One>>, <<NNeg(One), Zero>>, <<Zero, Zero>>,
     <<Num(3, 5), Num(4, 5)>>, <<Num(4, 5), Num(-3, 5)>>,
     <<Micro(1, 1), Zero>>, <<Micro(1, 2), Zero>>, <<Zero, Micro(-1, 2)>>,
     <<Micro(3, 5), Micro(4, 5)>>, <<Micro(3, 10), Micro(-4, 10)>>,
     <<Micro(2, 1), Zero>>, <<Micro(999, 1000), Zero>>}

PairSamples ==
    {<<One, Zero>>, <<Zero, One>>, <<Zero, Zero>>, <<NNeg(One), One>>,
     <<Num(3, 5), Num(4, 5)>>, <<Num(-4, 5), Num(-3, 5)>>}

MatrixSamples ==
    {Arr9(<<c[1], Zero, Zero, c[2], p[1], p[2], r6, q[1], q[2]>>) :
        c \in ColumnSamples, p \in PairSamples, q \in PairSamples,
        r6 \in {Zero, One, NNeg(One)}}

\* what the solver and Rodrigues hand back: rvec, tvec and the matrix of rvec
PnPSolutions ==
    {[rvec   |-> Arr3(Zero, Zero, Zero),
      tvec   |-> Arr3(Zero, Zero, Num(1, 2)),
      rotMat |-> Arr9(<<One, Zero, Zero, Zero, One, Zero, Zero, Zero, One>>)],
     [rvec   |-> Arr3(PI, Zero, Zero),
      tvec   |-> Arr3(Num(1, 10), Num(-1, 5), Num(3, 10)),
      rotMat |-> Arr9(<<One, Zero, Zero, Zero, NNeg(One), Zero, Zero, Zero, NNeg(One)>>)],
     [rvec   |-> Arr3(Atan34, Zero, Zero),
      tvec   |-> Arr3(Zero, Num(1, 10), One),
      rotMat |-> Arr9(<<One, Zero, Zero,
                        Zero, Num(4, 5), Num(-3, 5),
                        Zero, Num(3, 5), Num(4, 5)>>)]}

\* the behaviours of cv during one call of estimateSingleMarkerPose
CvSamples ==
    {[faultAt |-> 0, ok |-> TRUE, rvec |-> s.rvec, tvec |-> s.tvec, rotMat |-> s.rotMat] :
        s \in PnPSolutions}
    \cup
    {[faultAt |-> f, ok |-> b, rvec |-> s.rvec, tvec |-> s.tvec, rotMat |-> s.rotMat] :
        f \in {0, 2, 8, 9}, b \in BOOLEAN,
        s \in {t \in PnPSolutions : t.rvec = Arr3(Zero, Zero, Zero)}}

CornerSamples ==
    {<<[x |-> Num(100, 1), y |-> Num(100, 1)], [x |-> Num(200, 1), y |-> Num(100, 1)],
       [x |-> Num(200, 1), y |-> Num(200, 1)], [x |-> Num(100, 1), y |-> Num(200, 1)]>>}

\* ids the detector reports: those of the cube, and ids of no definition
KnownIds == {MARKER_DEFINITIONS[i].id : i \in 1..Len(MARKER_DEFINITIONS)}

IdSamples == KnownIds \cup {-1, 5, 49}

DetectionSamples == {[id |-> i, corners |-> c] : i \in IdSamples, c \in CornerSamples}

\* estimations for fusePoses
PoseSamples ==
    {[position |-> P3(Zero, Zero, Zero), rotation |-> P3(Num(179, 1), Zero, Zero),
      rvec |-> Arr3(Zero, Zero, Zero), tvec |-> Arr3(Zero, Zero, One), markerId |-> 0],
     [position |-> P3(Num(2, 1), Num(2, 1), Num(2, 1)),
      rotation |-> P3(Num(-179, 1), Num(90, 1), Num(10, 1)),
      rvec |-> Arr3(PI, Zero, Zero), tvec |-> Arr3(Zero, Zero, One), markerId |-> 2],
     [position |-> P3(Num(1, 2), Num(-3, 10), One),
      rotation |-> P3(Num(45, 1), Num(-30, 1), Num(180, 1)),
      rvec |-> Arr3(Zero, Zero, Zero), tvec |-> Arr3(One, Zero, One), markerId |-> 4],
     [position |-> P3(Num(1, 10), Zero, Micro(1, 1)),
      rotation |-> P3(Num(1, 3), Zero, Num(-90, 1)),
      rvec |-> Arr3(Zero, Zero, Zero), tvec |-> Arr3(Zero, One, Zero), markerId |-> 2]}

RECURSIVE SeqsUpTo(_, _)
SeqsUpTo(S, n) ==
    IF n = 0 THEN {<<>>}
    ELSE LET shorter == SeqsUpTo(S, n - 1)
         IN  shorter \cup {Append(q, e) : q \in {r \in shorter : Len(r) = n - 1}, e \in S}

NowSamples == {1000, 1016}

\* the behaviours of cv during one call of detectMarkers: each OpenCV call of
\* the function raising in turn, or none, and the markers the detector reports
DetectCvSamples ==
    {[faultAt |-> f, found |-> q] :
        f \in 0..10,
        q \in SeqsUpTo({d \in DetectionSamples : d.id \in {0, 5}}, MaxDetections)}

Calls ==
    {[fn |-> "markerToWorld", point |-> p, markerCenter |-> c, rot |-> r] :
        p \in PointSamples, c \in CenterSamples, r \in RotSamples}
    \cup {[fn |-> "markerToWorld", point |-> p, markerCenter |-> P3(Zero, Zero, Zero),
            rot |-> r] : p \in PointSamples, r \in EulerSamples}
    \cup {[fn |-> "markerToWorld", point |-> P3(Zero, Zero, One),
            markerCenter |-> P3(Zero, Zero, Zero),
            rot |-> MARKER_DEFINITIONS[i].rotationToWorld] : i \in 1..Len(MARKER_DEFINITIONS)}
    \cup {[fn |-> "rotationMatrixToEuler", R |-> m] : m \in MatrixSamples}
    \cup {[fn |-> "cameraRotationInWorld", R |-> m, markerRot |-> r] :
            m \in CameraRotSamples, r \in RotSamples \cup EulerSamples}
    \cup {[fn |-> "detectMarkers", cv |-> c] : c \in DetectCvSamples}
    \cup {[fn |-> "estimateSingleMarkerPose", cv |-> c, marker |-> d] :
            c \in CvSamples, d \in DetectionSamples}
    \cup {[fn |-> "fusePoses", poses |-> q, now |-> t] :
            q \in SeqsUpTo(PoseSamples, MaxPoses), t \in NowSamples}

----------------------------------------------------------------------------
(* components/CameraView.tsx: the frame loop.                              *)
(*                                                                         *)
(* JavaScript runs one task at a time, so a callback, an effect flush or   *)
(* the continuation of startCamera is one step.  React applies a queued    *)
(* setIsStreaming at the next render; at a commit it runs the cleanups of  *)
(* the effects whose dependencies changed, in the order of the effects,    *)
(* then their bodies.  The browser holds the animation-frame callbacks     *)
(* requested and neither run nor cancelled; a callback records the onFrame *)
(* of the render whose effect created it.                                  *)

\* requestAnimationFrame calls in one behaviour
MaxRequests == 4

\* startCamera calls in flight at once
MaxStarts == 2

\* cancelAnimationFrame(id)
cancelAnimationFrame(pending, id) == {f \in pending : f.id # id}

\* requestAnimationFrame(processFrame), giving the id issued
requestAnimationFrame(pending, id, closure) == pending \cup {[id |-> id, onFrame |-> closure]}

\* a cleanup of the frame-loop effect that cancels nothing
LoopCleanupNothing(pending, ref) == pending

\* the cleanup of the frame-loop effect: () => cancelAnimationFrame(animFrameRef.current)
LoopCleanup(pending, ref) == cancelAnimationFrame(pending, ref)

\* the calls of processFrame, in order
ProcessLog(f, ready, ctx) ==
    IF ~ready THEN <<"requestAnimationFrame">>
    ELSE IF ~ctx THEN <<"getContext">>
    ELSE <<"getContext", "drawImage">>
         \o (IF f.onFrame THEN <<"getImageData", "onFrame">> ELSE <<>>)
         \o <<"drawMarkerOverlays", "requestAnimationFrame">>

\* the component after its first commit: the frame-loop effect returned at
\* once (isStreaming is false), the camera effect called startCamera or stopCamera
InitView(a, f) ==
    /\ active = a
    /\ onFrame = f
    /\ isStreaming = FALSE
    /\ queued = IF a THEN "none" ELSE "false"
    /\ animFrameRef = 0
    /\ nextId = 0
    /\ pendingFrames = {}
    /\ loopEffect = FALSE
    /\ starting = IF a THEN 1 ELSE 0
    /\ frameLog = <<>>

\* a render and its commit: the parent passes active, onFrame and markers
\* (changed: onFrame or markers is a new object), the queued setIsStreaming
\* is applied, and the effects whose dependencies changed are re-run
Commit ==
    \E newActive \in BOOLEAN, newOnFrame \in BOOLEAN, changed \in BOOLEAN :
        LET streaming == IF queued = "none" THEN isStreaming ELSE queued = "true"
            loopDeps  == \/ streaming # isStreaming
                         \/ newActive # active
                         \/ newOnFrame # onFrame
                         \/ changed
            camDeps   == newActive # active
            \* cleanup of the frame loop, then of the camera effect (stopCamera)
            p1   == IF loopDeps /\ loopEffect THEN LoopCleanup(pendingFrames, animFrameRef)
                    ELSE pendingFrames
            p2   == IF camDeps THEN cancelAnimationFrame(p1, animFrameRef) ELSE p1
            \* the frame-loop effect
            runs == loopDeps /\ streaming /\ newActive
            id   == nextId + 1
            p3   == IF runs THEN requestAnimationFrame(p2, id, newOnFrame) ELSE p2
            ref  == IF runs THEN id ELSE animFrameRef
            \* the camera effect: startCamera() or stopCamera()
            p4   == IF camDeps /\ ~newActive THEN cancelAnimationFrame(p3, ref) ELSE p3
        IN  /\ loopDeps \/ camDeps \/ queued # "none"
            /\ runs => nextId < MaxRequests
            /\ (camDeps /\ newActive) => starting < MaxStarts
            /\ active' = newActive
            /\ onFrame' = newOnFrame
            /\ isStreaming' = streaming
            /\ queued' = IF camDeps THEN "false" ELSE "none"
            /\ pendingFrames' = p4
            /\ animFrameRef' = ref
            /\ nextId' = IF runs THEN id ELSE nextId
            /\ loopEffect' = IF loopDeps THEN runs ELSE loopEffect
            /\ starting' = IF camDeps /\ newActive THEN starting + 1 ELSE starting
            /\ UNCHANGED <<frameLog, harness, hook, loader>>

\* the browser runs a pending callback: processFrame.  ready: the video and
\* the canvas are there and video.readyState >= 2; ctx: getContext gave a context
ProcessFrame ==
    \E f \in pendingFrames, ready \in BOOLEAN, ctx \in BOOLEAN :
        \E log \in {ProcessLog(f, ready, ctx)} :
        LET rest     == pendingFrames \ {f}
            requests == {k \in 1..Len(log) : log[k] = "requestAnimationFrame"}
        IN  /\ nextId < MaxRequests
            /\ frameLog' = log
            /\ IF requests # {}
               THEN /\ nextId' = nextId + 1
                    /\ animFrameRef' = nextId + 1
                    /\ pendingFrames' = requestAnimationFrame(rest, nextId + 1, f.onFrame)
               ELSE /\ pendingFrames' = rest
                    /\ UNCHANGED <<nextId, animFrameRef>>
            /\ UNCHANGED <<active, onFrame, isStreaming, queued, loopEffect, starting,
                           harness, hook, loader>>

\* startCamera reaches setIsStreaming(true)
CameraStarted ==
    /\ starting > 0
    /\ starting' = starting - 1
    /\ queued' = "true"
    /\ UNCHANGED <<active, onFrame, isStreaming, animFrameRef, nextId, pendingFrames,
                   loopEffect, frameLog, harness, hook, loader>>

\* startCamera ends without streaming: no video element, or an exception
CameraFailed ==
    /\ starting > 0
    /\ starting' = starting - 1
    /\ UNCHANGED <<active, onFrame, isStreaming, queued, animFrameRef, nextId,
                   pendingFrames, loopEffect, frameLog, harness, hook, loader>>

----------------------------------------------------------------------------
(* components/OpenCVContext.tsx: the OpenCV loader.                        *)
(*                                                                         *)
(* The provider renders with its initial state, then its effect runs; in   *)
(* StrictMode React runs the effect, its cleanup and the effect again in   *)
(* one task.  The state setters of one callback are applied in one commit. *)
(* A provider mounted after an unmount is a new instance with the initial  *)
(* state; the module-level flag and the document outlive it.  The browser  *)
(* runs the script (window.cv appears) and later initialises the runtime   *)
(* (window.cv.Mat appears), or never does.                                 *)

POLL_INTERVAL == 200

LOAD_TIMEOUT == 60000

\* OpenCVProvider instances in one behaviour
MaxMounts == 2

\* the time between two runs of the interval callback: the interval, or more
\* when the browser delays the timer
DelaySamples == {POLL_INTERVAL, 24 * POLL_INTERVAL}

\* window.cv once the runtime is initialised
WindowCv == [Mat |-> TRUE]

\* a clearInterval that leaves the interval running
ClearIntervalNothing(active_, id) == active_

\* clearInterval(id)
clearInterval(active_, id) == active_ \ {id}

\* a timeout check that never fires
TimedOutNever(ms) == FALSE

\* Date.now() - start > LOAD_TIMEOUT
TimedOut(ms) == ms > LOAD_TIMEOUT

\* no cv object 15 s after the script tag was found
NoCvAfter15s(ms) == scriptTags > 0 /\ winCv = "none" /\ ms > 15000

InitLoader ==
    /\ status = "loading"
    /\ error = NULL
    /\ loadedCv = NULL
    /\ phase = "unmounted"
    /\ mounts = 0
    /\ timer = 0
    /\ timers = {}
    /\ nextTimer = 0
    /\ elapsed = 0
    /\ winCv = "none"
    /\ scriptInjected = FALSE
    /\ scriptTags = 0

\* the provider is created and rendered: useState("loading"), useState(null), useState(null)
Mount ==
    /\ phase = "unmounted"
    /\ mounts < MaxMounts
    /\ mounts' = mounts + 1
    /\ phase' = "rendered"
    /\ status' = "loading"
    /\ error' = NULL
    /\ loadedCv' = NULL
    /\ UNCHANGED <<timer, timers, nextTimer, elapsed, winCv, scriptInjected, scriptTags,
                   harness, hook, view>>

\* ensureScriptTag(): the script tag is appended unless the flag is set or
\* the document has the tag already
ensureScriptTag ==
    /\ scriptInjected' = TRUE
    /\ scriptTags' = IF scriptInjected \/ scriptTags > 0 THEN scriptTags ELSE scriptTags + 1

\* the effect of the provider runs (strict: React runs it, its cleanup, and it again)
RunEffect ==
    /\ phase = "rendered"
    /\ phase' = "mounted"
    /\ \E strict \in BOOLEAN :
        IF winCv = "ready"
        THEN \* Already ready
             /\ loadedCv' = WindowCv
             /\ status' = "ready"
             /\ timer' = 0
             /\ UNCHANGED <<error, timers, nextTimer, elapsed, scriptInjected, scriptTags>>
        ELSE LET runs == IF strict THEN 2 ELSE 1
                 id   == nextTimer + runs
             IN  /\ ensureScriptTag
                 /\ elapsed' = 0
                 /\ nextTimer' = id
                 /\ timer' = id
                 \* the interval of a first run is cleared by its cleanup
                 /\ timers' = IF strict
                               THEN clearInterval(timers \cup {id - 1}, id - 1) \cup {id}
                               ELSE timers \cup {id}
                 /\ UNCHANGED <<status, error, loadedCv>>
    /\ UNCHANGED <<mounts, winCv, harness, hook, view>>

\* the interval callback runs, dt ms after its last run
Tick ==
    \E t \in timers, dt \in DelaySamples :
        LET ms == elapsed + dt
        IN  /\ elapsed <= LOAD_TIMEOUT
            /\ elapsed' = ms
            /\ IF TimedOut(ms) THEN
                   /\ timers' = clearInterval(timers, t)
                   /\ error' = [message |-> "OpenCV.js initialization timed out"]
                   /\ status' = "error"
                   /\ UNCHANGED loadedCv
               ELSE IF NoCvAfter15s(ms) THEN
                   /\ timers' = clearInterval(timers, t)
                   /\ error' = [message |-> "Failed to load OpenCV.js from CDN"]
                   /\ status' = "error"
                   /\ UNCHANGED loadedCv
               ELSE IF winCv = "ready" THEN
                   /\ timers' = clearInterval(timers, t)
                   /\ loadedCv' = WindowCv
                   /\ status' = "ready"
                   /\ UNCHANGED error
               ELSE UNCHANGED <<timers, status, error, loadedCv>>
            /\ UNCHANGED <<phase, mounts, timer, nextTimer, winCv, scriptInjected, scriptTags,
                           harness, hook, view>>

\* the provider is unmounted: the cleanup of the effect, if it returned one
Unmount ==
    /\ phase = "mounted"
    /\ phase' = "unmounted"
    /\ timers' = IF timer = 0 THEN timers ELSE clearInterval(timers, timer)
    /\ UNCHANGED <<status, error, loadedCv, mounts, timer, nextTimer, elapsed, winCv,
                   scriptInjected, scriptTags, harness, hook, view>>

\* the module is evaluated again (hot reload) while no provider is mounted
ModuleReload ==
    /\ phase = "unmounted"
    /\ scriptInjected
    /\ scriptInjected' = FALSE
    /\ UNCHANGED <<status, error, loadedCv, phase, mounts, timer, timers, nextTimer,
                   elapsed, winCv, scriptTags, harness, hook, view>>

\* the browser has run the script: window.cv is there, the runtime is not
ScriptRuns ==
    /\ scriptTags > 0
    /\ winCv = "none"
    /\ winCv' = "object"
    /\ UNCHANGED <<status, error, loadedCv, phase, mounts, timer, timers, nextTimer,
                   elapsed, scriptInjected, scriptTags, harness, hook, view>>

\* the runtime is initialised: window.cv.Mat is a function
RuntimeReady ==
    /\ winCv = "object"
    /\ winCv' = "ready"
    /\ UNCHANGED <<status, error, loadedCv, phase, mounts, timer, timers, nextTimer,
                   elapsed, scriptInjected, scriptTags, harness, hook, view>>

----------------------------------------------------------------------------
(* The pure functions applied to the inputs drawn.                         *)

Pending == [done |-> FALSE]

Done(v) == [done |-> TRUE, value |-> v]

\* the hook and the pose context right after mounting
InitHook ==
    /\ cvRef = NULL
    /\ warnedRef = FALSE
    /\ frameTimesRef = <<>>
    /\ stateRef = [detectedMarkers |-> <<>>, fps |-> 0]
    /\ poseResult = NULL
    /\ clock = 0
    /\ frameNo = 0
    /\ trace = [ran |-> FALSE]

InitCalls ==
    /\ call \in Calls
    /\ ret = Pending
    /\ InitHook
    /\ InitView(TRUE, TRUE)
    /\ InitLoader

CallMarkerToWorld ==
    /\ ret = Pending
    /\ call.fn = "markerToWorld"
    /\ ret' = Done(markerToWorld(call.point, call.markerCenter, call.rot))
    /\ UNCHANGED <<call, hook, view, loader>>

CallRotationMatrixToEuler ==
    /\ ret = Pending
    /\ call.fn = "rotationMatrixToEuler"
    /\ ret' = Done(rotationMatrixToEuler(call.R))
    /\ UNCHANGED <<call, hook, view, loader>>

CallEstimateSingleMarkerPose ==
    /\ ret = Pending
    /\ call.fn = "estimateSingleMarkerPose"
    /\ ret' = Done(estimateSingleMarkerPose(call.cv, call.marker))
    /\ UNCHANGED <<call, hook, view, loader>>

CallCameraRotationInWorld ==
    /\ ret = Pending
    /\ call.fn = "cameraRotationInWorld"
    /\ ret' = Done(cameraRotationInWorld(call.R, call.markerRot))
    /\ UNCHANGED <<call, hook, view, loader>>

CallDetectMarkers ==
    /\ ret = Pending
    /\ call.fn = "detectMarkers"
    /\ ret' = Done(detectMarkers(call.cv))
    /\ UNCHANGED <<call, hook, view, loader>>

CallFusePoses ==
    /\ ret = Pending
    /\ call.fn = "fusePoses"
    /\ ret' = Done(fusePoses(call.poses, call.now))
    /\ UNCHANGED <<call, hook, view, loader>>

NextCalls ==
    \/ CallMarkerToWorld
    \/ CallRotationMatrixToEuler
    \/ CallCameraRotationInWorld
    \/ CallDetectMarkers
    \/ CallEstimateSingleMarkerPose
    \/ CallFusePoses

SpecCalls == InitCalls /\ [][NextCalls]_vars

----------------------------------------------------------------------------
(* hooks/useMarkerDetection.ts and components/PoseContext.tsx.             *)

\* the number of frames handed to handleFrame
MaxFrames == 2

\* OpenCV builds: with the ArUco API, and without the detector class
CvObjects ==
    {[aruco_ArucoDetector |-> TRUE, aruco_Dictionary |-> TRUE,
      aruco_DetectorParameters |-> TRUE],
     [aruco_ArucoDetector |-> FALSE, aruco_Dictionary |-> TRUE,
      aruco_DetectorParameters |-> TRUE]}

\* time between two animation frames, in ms
DtSamples == {600}

\* one detected marker and what OpenCV does while it is resolved: a marker of
\* the cube with the solver succeeding, reporting failure, or raising, or with
\* Rodrigues raising, a second marker of the cube with the solver succeeding,
\* and a marker of no definition
MarkerCases ==
    {k \in [marker : DetectionSamples, cv : CvSamples] :
        \/ /\ k.marker.id = 0
           /\ \/ k.cv.faultAt = 0 /\ k.cv.ok /\ k.cv.rvec = Arr3(PI, Zero, Zero)
              \/ k.cv.faultAt = 0 /\ ~k.cv.ok
              \/ k.cv.faultAt \in {8, 9} /\ k.cv.ok
        \/ /\ k.marker.id \in {1, 5}
           /\ k.cv.faultAt = 0 /\ k.cv.ok /\ k.cv.rvec = Arr3(PI, Zero, Zero)}

\* what OpenCV does during one frame: the detector reports a list of markers
\* (solver[i] is its behaviour while found[i] is resolved), or the detector raises
FrameSamples ==
    {[faultAt |-> 0,
      found   |-> [i \in 1..Len(q) |-> q[i].marker],
      solver  |-> [i \in 1..Len(q) |-> q[i].cv]] : q \in SeqsUpTo(MarkerCases, MaxDetections)}
    \cup {[faultAt |-> 10, found |-> <<>>, solver |-> <<>>]}

\* estimateSingleMarkerPose(cv, marker), tabulated over the cases of a frame
ResolveTable ==
    {<<k, estimateSingleMarkerPose(k.cv, k.marker)>> : k \in MarkerCases}

Resolve(cv, marker) ==
    (CHOOSE r \in ResolveTable : r[1] = [marker |-> marker, cv |-> cv])[2]

\* a map that the first exception ends: no marker after it is resolved
RECURSIVE EstimationsAborting(_, _, _)
EstimationsAborting(solver, markers, i) ==
    IF i > Len(markers) THEN <<>>
    ELSE IF Resolve(solver[i], markers[i]).thrown
         THEN [k \in 1..(Len(markers) - i + 1) |-> Raised(<<>>)]
         ELSE <<Resolve(solver[i], markers[i])>> \o EstimationsAborting(solver, markers, i + 1)

\* markers.map((m) => { try { return estimateSingleMarkerPose(...) } catch { return null } })
\* from index i on, before the catch: the outcome of the call for each marker
RECURSIVE Estimations(_, _, _)
Estimations(solver, markers, i) ==
    IF i > Len(markers) THEN <<>>
    ELSE <<Resolve(solver[i], markers[i])>> \o Estimations(solver, markers, i + 1)

NotNull(p) == p # NULL

\* the times at which a frame arrives
ClockSamples == {k * dt : k \in 1..MaxFrames, dt \in DtSamples}

\* the estimations a frame can resolve
ResolvedSamples ==
    {SelectSeq([i \in 1..Len(q) |-> Resolve(q[i].cv, q[i].marker)],
               LAMBDA r : ~r.thrown /\ r.value # NULL) : q \in SeqsUpTo(MarkerCases, MaxDetections)}

\* fusePoses(poses, now), tabulated over the estimations and times of a frame
FuseTable ==
    {<<[poses |-> [i \in 1..Len(q) |-> q[i].value], now |-> t],
       fusePoses([i \in 1..Len(q) |-> q[i].value], t)>> : q \in ResolvedSamples, t \in ClockSamples}

Fuse(poses, now) ==
    (CHOOSE r \in FuseTable : r[1] = [poses |-> poses, now |-> now])[2]

\* a handler that fuses and publishes whatever was resolved
PublishesAlways(poses) == TRUE

\* if (poses.length > 0): the frame is fused and published
Publishes(poses) == Len(poses) > 0

\* PoseProvider.updatePose: setPoseResult(pose)
updatePose(pose) == poseResult' = pose

\* the component renders with the OpenCV object of the loader's context
Render ==
    /\ cvRef = NULL
    /\ cvRef' \in CvObjects
    /\ UNCHANGED <<warnedRef, frameTimesRef, stateRef, poseResult, clock, frameNo, trace,
                   harness, view, loader>>

\* handleFrame(imageData, ctx), the frame arriving dt ms after the last one
HandleFrame ==
    /\ frameNo < MaxFrames
    /\ frameNo' = frameNo + 1
    /\ \E dt \in DtSamples :
        LET currentCv == cvRef
            now       == clock + dt
        IN  /\ clock' = now
            /\ IF currentCv = NULL THEN
                   /\ trace' = [ran |-> FALSE, calls |-> <<>>]
                   /\ UNCHANGED <<warnedRef, frameTimesRef, stateRef, poseResult>>
               ELSE IF ~isArucoAvailable(currentCv) THEN
                   /\ warnedRef' = TRUE
                   /\ trace' = [ran |-> FALSE,
                                calls |-> IF ~warnedRef THEN <<"console.warn">> ELSE <<>>]
                   /\ UNCHANGED <<frameTimesRef, stateRef, poseResult>>
               ELSE
                   \E frame \in FrameSamples :
                   LET \* FPS measurement
                       pushed     == Append(frameTimesRef, now)
                       stale      == {i \in 1..Len(pushed) :
                                         \A j \in 1..i : pushed[j] < now - 1000}
                       frameTimes == SubSeq(pushed, Cardinality(stale) + 1, Len(pushed))
                       fps        == Len(frameTimes)
                   IN  \* Detect markers
                       \E detected \in {detectMarkers(frame)} :
                       \E markers \in {IF detected.thrown THEN <<>> ELSE detected.value} :
                       \* Estimate pose for each detected marker
                       \E resolved \in {Estimations(frame.solver, markers, 1)} :
                       \E poses \in {SelectSeq([i \in 1..Len(markers) |->
                                                   IF resolved[i].thrown THEN NULL
                                                   ELSE resolved[i].value], NotNull)} :
                           /\ frameTimesRef' = frameTimes
                           \* Fuse and update context
                           /\ IF Publishes(poses) THEN updatePose(Fuse(poses, now))
                              ELSE UNCHANGED poseResult
                           \* Update state
                           /\ stateRef' = [detectedMarkers |-> markers, fps |-> fps]
                           /\ trace' =
                                [ran      |-> TRUE,
                                 detected |-> [thrown |-> detected.thrown,
                                               value  |-> detected.value],
                                 notified |-> <<markers, fps>>,
                                 solver   |-> [i \in 1..Len(markers) |->
                                                 [faultAt |-> frame.solver[i].faultAt,
                                                  ok      |-> frame.solver[i].ok]],
                                 resolved |-> [i \in 1..Len(markers) |->
                                                 [thrown  |-> resolved[i].thrown,
                                                  value   |-> resolved[i].value,
                                                  solved  |-> \E k \in 1..Len(resolved[i].log) :
                                                      resolved[i].log[k][1] = "solvePnP"]],
                                 fused    |-> IF Publishes(poses) THEN <<poses>> ELSE <<>>,
                                 calls    |->
                                    (IF detected.thrown THEN <<"console.error">> ELSE <<>>)
                                    \o [i \in 1..Cardinality({k \in 1..Len(markers) :
                                                              resolved[k].thrown}) |->
                                            "console.error"]
                                    \o (IF Publishes(poses) THEN <<"fusePoses", "updatePose">>
                                        ELSE <<>>)
                                    \o <<"onStateChange">>]
                           /\ UNCHANGED warnedRef
    /\ UNCHANGED <<cvRef, harness, view, loader>>

Init ==
    /\ InitHook
    /\ InitView(TRUE, TRUE)
    /\ InitLoader
    /\ call = [fn |-> "none"]
    /\ ret = Pending

Next ==
    \/ Render
    \/ HandleFrame

Spec == Init /\ [][Next]_vars

\* CameraView mounted with either value of active, with or without onFrame
InitLoop ==
    /\ InitHook
    /\ call = [fn |-> "none"]
    /\ ret = Pending
    /\ \E a \in BOOLEAN, f \in BOOLEAN : InitView(a, f)
    /\ InitLoader

NextLoop ==
    \/ Commit
    \/ ProcessFrame
    \/ CameraStarted
    \/ CameraFailed

SpecLoop == InitLoop /\ [][NextLoop]_vars

NextLoader ==
    \/ Mount
    \/ RunEffect
    \/ Tick
    \/ Unmount
    \/ ModuleReload
    \/ ScriptRuns
    \/ RuntimeReady

SpecLoader == Init /\ [][NextLoader]_vars

\* the browser keeps running the callback of an interval that is not cleared
SpecLoaderFair == SpecLoader /\ WF_vars(Tick)

----------------------------------------------------------------------------
(* Properties of lib/aruco.ts, over the calls of SpecCalls.                *)

Called(fn) == call.fn = fn /\ ret.done

Invoked(log, name) == \E k \in 1..Len(log) : log[k][1] = name

\* C1: estimateSingleMarkerPose called with a detection whose id is the id of
\* no entry of MARKER_DEFINITIONS returns null, whatever OpenCV would do, and
\* makes no OpenCV call at all: the PnP solver is not invoked.
C1_UnknownIdReturnsNull ==
    (Called("estimateSingleMarkerPose") /\ call.marker.id \notin KnownIds)
        => /\ ~ret.value.thrown
           /\ ret.value.value = NULL
           /\ ~Invoked(ret.value.log, "solvePnP")
           /\ ret.value.log = <<>>

\* an id of no definition, with an OpenCV whose solver would have succeeded
C1_Witness ==
    /\ Called("estimateSingleMarkerPose")
    /\ call.marker.id = 49
    /\ call.cv.faultAt = 0 /\ call.cv.ok
    /\ ret.value.value = NULL

\* C2: for a detection with a known id, a solver that returns false makes
\* estimateSingleMarkerPose return null, and an estimation is returned only
\* when the solver was invoked and returned true.
C2_SolverFailureReturnsNull ==
    (Called("estimateSingleMarkerPose") /\ call.marker.id \in KnownIds)
        => /\ (Invoked(ret.value.log, "solvePnP") /\ call.cv.faultAt # 8 /\ ~call.cv.ok)
                => (~ret.value.thrown /\ ret.value.value = NULL)
           /\ ret.value.value # NULL
                => (call.cv.ok /\ Invoked(ret.value.log, "solvePnP")
                    /\ ret.value.value.markerId = call.marker.id)

\* a known id whose solver returns false
C2_Witness ==
    /\ Called("estimateSingleMarkerPose")
    /\ call.marker.id = 3
    /\ call.cv.faultAt = 0 /\ ~call.cv.ok
    /\ Invoked(ret.value.log, "solvePnP")
    /\ ret.value.value = NULL

\* C3: fusePoses of the empty list returns cameraPosition (0,0,0),
\* cameraRotation (0,0,0), no poses and no detectedMarkerIds, stamped with the
\* current time.
C3_EmptyFusionIsZeroPose ==
    (Called("fusePoses") /\ Len(call.poses) = 0)
        => /\ ret.value.cameraPosition = P3(Zero, Zero, Zero)
           /\ ret.value.cameraRotation = P3(Zero, Zero, Zero)
           /\ ret.value.poses = <<>>
           /\ ret.value.detectedMarkerIds = <<>>
           /\ ret.value.timestamp = call.now

C3_Witness ==
    /\ Called("fusePoses")
    /\ call.poses = <<>>
    /\ ret.value.cameraPosition.x = Zero

\* the sum of a list of numbers, from the right
RECURSIVE Total(_)
Total(values) ==
    IF values = <<>> THEN Zero ELSE NAdd(Head(values), Total(Tail(values)))

Components(poses, field, axis) == [i \in 1..Len(poses) |-> poses[i][field][axis]]

\* C4: for a non-empty list of n estimations, each of the x, y and z components
\* of cameraPosition and of cameraRotation, times n, is the sum of that
\* component over the inputs, the angles taken as they are: rotations of 179
\* and -179 degrees about x fuse to 0, positions (0,0,0) and (2,2,2) to (1,1,1).
C4_PerAxisMean ==
    (Called("fusePoses") /\ Len(call.poses) > 0)
        => /\ \A axis \in {"x", "y", "z"} :
                /\ NMul(ret.value.cameraPosition[axis], Num(Len(call.poses), 1))
                       = Total(Components(call.poses, "position", axis))
                /\ NMul(ret.value.cameraRotation[axis], Num(Len(call.poses), 1))
                       = Total(Components(call.poses, "rotation", axis))
           /\ (/\ Len(call.poses) = 2
               /\ {call.poses[1].rotation.x, call.poses[2].rotation.x}
                      = {Num(179, 1), Num(-179, 1)})
                => ret.value.cameraRotation.x = Zero
           /\ (/\ Len(call.poses) = 2
               /\ call.poses[1].position = P3(Zero, Zero, Zero)
               /\ call.poses[2].position = P3(Num(2, 1), Num(2, 1), Num(2, 1)))
                => ret.value.cameraPosition = P3(One, One, One)

\* the two estimations of the examples, fused
C4_Witness ==
    /\ Called("fusePoses")
    /\ Len(call.poses) = 2
    /\ call.poses[1].rotation.x = Num(179, 1)
    /\ call.poses[2].rotation.x = Num(-179, 1)
    /\ call.poses[1].position = P3(Zero, Zero, Zero)
    /\ call.poses[2].position = P3(Num(2, 1), Num(2, 1), Num(2, 1))
    /\ ret.value.cameraRotation.x = Zero
    /\ ret.value.cameraPosition = P3(One, One, One)

\* C5: fusePoses of a single estimation e returns cameraPosition e.position,
\* cameraRotation e.rotation and detectedMarkerIds [e.markerId].
C5_SingleEstimationIsKept ==
    (Called("fusePoses") /\ Len(call.poses) = 1)
        => /\ ret.value.cameraPosition = call.poses[1].position
           /\ ret.value.cameraRotation = call.poses[1].rotation
           /\ ret.value.detectedMarkerIds = <<call.poses[1].markerId>>

\* a single estimation away from the origin, with a component that is no integer
C5_Witness ==
    /\ Called("fusePoses")
    /\ Len(call.poses) = 1
    /\ call.poses[1].rotation.x = Num(1, 3)
    /\ ret.value.cameraRotation.x = Num(1, 3)
    /\ ret.value.cameraPosition.z = Micro(1, 1)

\* C6: for a non-empty list, fusePoses returns as poses the list it was given,
\* and detectedMarkerIds of the same length whose i-th element is the markerId
\* of the i-th estimation.
C6_PosesAndIdsInOrder ==
    (Called("fusePoses") /\ Len(call.poses) > 0)
        => /\ ret.value.poses = call.poses
           /\ Len(ret.value.detectedMarkerIds) = Len(call.poses)
           /\ \A i \in 1..Len(call.poses) :
                ret.value.detectedMarkerIds[i] = call.poses[i].markerId

\* three estimations, two of them of the same marker, the ids not in order
C6_Witness ==
    /\ Called("fusePoses")
    /\ Len(call.poses) = 3
    /\ ret.value.detectedMarkerIds = <<2, 0, 2>>

\* C9: markerToWorld(p, markerCenter, (0,0,0)) is p + markerCenter, component
\* by component.
C9_ZeroRotationTranslates ==
    (Called("markerToWorld") /\ call.rot = P3(Zero, Zero, Zero))
        => ret.value = [x |-> NAdd(call.point.x, call.markerCenter.x),
                        y |-> NAdd(call.point.y, call.markerCenter.y),
                        z |-> NAdd(call.point.z, call.markerCenter.z)]

\* a point and a centre with no component in common
C9_Witness ==
    /\ Called("markerToWorld")
    /\ call.rot = P3(Zero, Zero, Zero)
    /\ call.point = P3(Num(1, 2), Num(-3, 10), Num(2, 1))
    /\ call.markerCenter = P3(Num(1, 10), Num(-1, 5), Num(2, 1))
    /\ ret.value = P3(Num(3, 5), Num(-1, 2), Num(4, 1))

\* sy < 1e-6, decided on the squares: R[0,0]^2 + R[1,0]^2 < 1e-12
SingularMatrix(R) ==
    NLt(NAdd(NMul(R[0], R[0]), NMul(R[3], R[3])), NMul(Micro(1, 1), Micro(1, 1)))

\* the angle in degrees is the angle rad in radians: degrees * PI = rad * 180
InDegrees(degrees, rad) == NMul(degrees, PI) = NMul(rad, Num(180, 1))

\* C10: rotationMatrixToEuler takes the singular branch exactly when
\* sy = sqrt(R[0,0]^2 + R[1,0]^2) < 1e-6; it then returns z = 0,
\* x = atan2(-R[1,2], R[1,1]) and y = atan2(-R[2,0], sy), and otherwise
\* x = atan2(R[2,1], R[2,2]), y = atan2(-R[2,0], sy), z = atan2(R[1,0], R[0,0]),
\* all three in degrees.
C10_EulerBranches ==
    Called("rotationMatrixToEuler")
        => LET R  == call.R
               sy == MathSqrt(NAdd(NMul(R[0], R[0]), NMul(R[3], R[3])))
           IN  /\ InDegrees(ret.value.y, MathAtan2(NNeg(R[6]), sy))
               /\ SingularMatrix(R)
                    => /\ ret.value.z = Zero
                       /\ InDegrees(ret.value.x, MathAtan2(NNeg(R[5]), R[4]))
               /\ ~SingularMatrix(R)
                    => /\ InDegrees(ret.value.z, MathAtan2(R[3], R[0]))
                       /\ InDegrees(ret.value.x, MathAtan2(R[7], R[8]))

\* a first column of length 1e-6 / 2, where the regular branch would give
\* z = -90 and x = 0: the singular branch gives z = 0 and x = -90
C10_Witness ==
    /\ Called("rotationMatrixToEuler")
    /\ call.R[0] = Zero /\ call.R[3] = Micro(-1, 2)
    /\ call.R[4] = Zero /\ call.R[5] = One
    /\ call.R[7] = Zero /\ call.R[8] = One
    /\ ret.value.z = Zero
    /\ ret.value.x = Num(-90, 1)

\* the marker facing the camera: R = diag(1, -1, -1), for which RtC is the identity
Facing == Arr9(<<One, Zero, Zero, Zero, NNeg(One), Zero, Zero, Zero, NNeg(One)>>)

\* |pitch| < 89 degrees, for a pitch in radians
Below89(pitch) == NLt(NMul(NAbs(pitch), Num(180, 1)), NMul(Num(89, 1), PI))

\* C11: for Euler angles a with |pitch| < 89 degrees (roll and yaw in
\* (-180, 180] degrees), the matrix Rz * Ry * Rx that cameraRotationInWorld
\* builds from a, handed to rotationMatrixToEuler, gives a back in degrees.
C11_EulerRoundTrip ==
    (Called("cameraRotationInWorld") /\ call.R = Facing /\ Below89(call.markerRot.y))
        => LET e == rotationMatrixToEuler(ret.value)
           IN  /\ InDegrees(e.x, call.markerRot.x)
               /\ InDegrees(e.y, call.markerRot.y)
               /\ InDegrees(e.z, call.markerRot.z)

\* roll 143.13, pitch -36.87 and yaw 90 degrees come back
C11_Witness ==
    /\ Called("cameraRotationInWorld")
    /\ call.R = Facing
    /\ call.markerRot = P3(NSub(PI, Atan34), NNeg(Atan34), HalfPi)
    /\ ret.value[0] = Zero /\ ret.value[3] = Num(4, 5) /\ ret.value[6] = Num(3, 5)
    /\ rotationMatrixToEuler(ret.value).z = Num(90, 1)

\* how often the log has <<kind, name>>, kind being "new" or "delete"
Count(log, kind, name) ==
    Cardinality({k \in 1..Len(log) : log[k][1] = kind /\ log[k][2] = name})

ObjectNames ==
    {PoseMats[i] : i \in 1..Len(PoseMats)} \cup {FrameMats[i] : i \in 1..Len(FrameMats)}
        \cup {DetectorObjects[i] : i \in 1..Len(DetectorObjects)} \cup {"cornerMat"}

\* C12: every OpenCV object detectMarkers or estimateSingleMarkerPose
\* allocates is deleted exactly once by the time the function is left, on
\* every exit path: normal return, null return, and an exception raised by any
\* OpenCV call or constructor.
C12_AllocatedObjectsDeletedOnce ==
    (Called("detectMarkers") \/ Called("estimateSingleMarkerPose"))
        => \A name \in ObjectNames :
               Count(ret.value.log, "delete", name) = Count(ret.value.log, "new", name)

\* 3x3 matrices as functions on {0,1,2} x {0,1,2}, and their algebra
Matrix(A) == [i \in 0..2, j \in 0..2 |-> A[3 * i + j]]

Times(X, Y) ==
    [i \in 0..2, j \in 0..2 |->
        NAdd(NMul(X[i, 0], Y[0, j]), NAdd(NMul(X[i, 1], Y[1, j]), NMul(X[i, 2], Y[2, j])))]

Transposed(X) == [i \in 0..2, j \in 0..2 |-> X[j, i]]

Diag(a, b, c) ==
    [i \in 0..2, j \in 0..2 |-> IF i # j THEN Zero ELSE IF i = 0 THEN a ELSE IF i = 1 THEN b ELSE c]

\* the rotations about the X, Y and Z axes by the angle t
Rx(t) ==
    [i \in 0..2, j \in 0..2 |->
        CASE <<i, j>> = <<0, 0>> -> One
          [] <<i, j>> \in {<<1, 1>>, <<2, 2>>} -> MathCos(t)
          [] <<i, j>> = <<2, 1>> -> MathSin(t)
          [] <<i, j>> = <<1, 2>> -> NNeg(MathSin(t))
          [] OTHER -> Zero]

Ry(t) ==
    [i \in 0..2, j \in 0..2 |->
        CASE <<i, j>> = <<1, 1>> -> One
          [] <<i, j>> \in {<<0, 0>>, <<2, 2>>} -> MathCos(t)
          [] <<i, j>> = <<0, 2>> -> MathSin(t)
          [] <<i, j>> = <<2, 0>> -> NNeg(MathSin(t))
          [] OTHER -> Zero]

Rz(t) ==
    [i \in 0..2, j \in 0..2 |->
        CASE <<i, j>> = <<2, 2>> -> One
          [] <<i, j>> \in {<<0, 0>>, <<1, 1>>} -> MathCos(t)
          [] <<i, j>> = <<1, 0>> -> MathSin(t)
          [] <<i, j>> = <<0, 1>> -> NNeg(MathSin(t))
          [] OTHER -> Zero]

\* Rz * Ry * Rx for the Euler angles m
EulerMatrix(m) == Times(Rz(m.z), Times(Ry(m.y), Rx(m.x)))

\* C14: cameraRotationInWorld(R, m) is the matrix product
\* M * (transpose(R) * diag(1, -1, -1)) with M = Rz(m.z) * Ry(m.y) * Rx(m.x) on
\* the left; for m = (0,0,0) it is transpose(R) * diag(1, -1, -1).
C14_WorldRotationOnTheLeft ==
    Called("cameraRotationInWorld")
        => LET converted == Times(Transposed(Matrix(call.R)), Diag(One, NNeg(One), NNeg(One)))
           IN  /\ Matrix(ret.value) = Times(EulerMatrix(call.markerRot), converted)
               /\ call.markerRot = P3(Zero, Zero, Zero) => Matrix(ret.value) = converted

\* R a rotation about X and m a quarter turn about Z, which do not commute: the
\* product in the other order is another matrix
C14_Witness ==
    /\ Called("cameraRotationInWorld")
    /\ call.markerRot = P3(Zero, Zero, HalfPi)
    /\ call.R[4] = Num(4, 5) /\ call.R[5] = Num(-3, 5)
    /\ ret.value[1] = Num(4, 5) /\ ret.value[3] = One /\ ret.value[8] = Num(-4, 5)
    /\ Matrix(ret.value)
           # Times(Times(Transposed(Matrix(call.R)), Diag(One, NNeg(One), NNeg(One))),
                   EulerMatrix(call.markerRot))

\* the definition of the table with the given id
DefinitionOf(id) ==
    MARKER_DEFINITIONS[CHOOSE i \in 1..Len(MARKER_DEFINITIONS) : MARKER_DEFINITIONS[i].id = id]

\* -transpose(R) * t as a point
CameraInMarker(R, t) ==
    LET Rt == Transposed(Matrix(R))
        row(i) == NNeg(NAdd(NMul(Rt[i, 0], t[0]), NAdd(NMul(Rt[i, 1], t[1]), NMul(Rt[i, 2], t[2]))))
    IN  [x |-> row(0), y |-> row(1), z |-> row(2)]

\* C15: when the solver succeeds with rotation matrix R and translation t for
\* a marker with definition d, the estimation returned has position
\* markerToWorld(-transpose(R) * t, d.center, d.rotationToWorld), the id of the
\* detection as markerId, and the solver's rvec and tvec.
C15_PoseContent ==
    (/\ Called("estimateSingleMarkerPose")
     /\ call.marker.id \in KnownIds
     /\ call.cv.faultAt = 0 /\ call.cv.ok)
        => /\ ~ret.value.thrown
           /\ ret.value.value # NULL
           /\ ret.value.value.position
                  = markerToWorld(CameraInMarker(call.cv.rotMat, call.cv.tvec),
                                  DefinitionOf(call.marker.id).center,
                                  DefinitionOf(call.marker.id).rotationToWorld)
           /\ ret.value.value.markerId = call.marker.id
           /\ \A i \in 0..2 : /\ ret.value.value.rvec[i] = call.cv.rvec[i]
                              /\ ret.value.value.tvec[i] = call.cv.tvec[i]

\* the front marker seen under a rotation about X that is not symmetric:
\* t = (0, 0.1, 1) gives the camera at (0, -0.68, -0.74) in the marker's frame
C15_Witness ==
    /\ Called("estimateSingleMarkerPose")
    /\ call.marker.id = 0
    /\ call.cv.faultAt = 0 /\ call.cv.ok
    /\ call.cv.rvec[0] = Atan34
    /\ ret.value.value.position = P3(Zero, Num(-17, 25), Num(-17, 25))
    /\ ret.value.value.tvec[1] = Num(1, 10)

\* the row-major 3x3 matrix m applied to the point p
Apply(m, p) ==
    [x |-> NAdd(NAdd(NMul(m[0], p.x), NMul(m[1], p.y)), NMul(m[2], p.z)),
     y |-> NAdd(NAdd(NMul(m[3], p.x), NMul(m[4], p.y)), NMul(m[5], p.z)),
     z |-> NAdd(NAdd(NMul(m[6], p.x), NMul(m[7], p.y)), NMul(m[8], p.z))]

\* C16: the two rotation paths agree: markerToWorld(p, 0, rot), which rotates
\* p about X, then Y, then Z, gives the point that the matrix Rz * Ry * Rx
\* built by cameraRotationInWorld from the same rot gives when applied to p.
C16_RotationPathsAgree ==
    (Called("markerToWorld") /\ call.markerCenter = P3(Zero, Zero, Zero))
        => ret.value = Apply(cameraRotationInWorld(Facing, call.rot), call.point)

\* a point off the axes turned about all three axes
C16_Witness ==
    /\ Called("markerToWorld")
    /\ call.markerCenter = P3(Zero, Zero, Zero)
    /\ call.rot = P3(Atan34, NNeg(Atan34), HalfPi)
    /\ call.point = P3(Num(1, 2), One, Num(2, 1))
    /\ ret.value = Apply(Rm2w(call.rot), call.point)
    /\ ret.value # call.point

\* C20 as claimed: the table of marker definitions is consistent: the ids are
\* pairwise distinct, every normal is a unit vector, every center is
\* CUBE_SIZE / 2 times the normal, and markerToWorld with a zero center and
\* a definition's rotationToWorld takes the marker-local axis (0, 0, 1) to
\* that definition's normal.
C20_DefinitionsConsistent ==
    LET defs == {MARKER_DEFINITIONS[i] : i \in 1..Len(MARKER_DEFINITIONS)}
        half == NDiv(CUBE_SIZE, Num(2, 1))
    IN  /\ \A i, j \in 1..Len(MARKER_DEFINITIONS) :
               MARKER_DEFINITIONS[i].id = MARKER_DEFINITIONS[j].id => i = j
        /\ \A d \in defs :
               /\ NAdd(NAdd(NMul(d.normal.x, d.normal.x), NMul(d.normal.y, d.normal.y)),
                       NMul(d.normal.z, d.normal.z)) = One
               /\ d.center = P3(NMul(half, d.normal.x), NMul(half, d.normal.y),
                                NMul(half, d.normal.z))
        /\ (/\ Called("markerToWorld")
            /\ call.point = P3(Zero, Zero, One)
            /\ call.markerCenter = P3(Zero, Zero, Zero))
               => \A d \in defs : d.rotationToWorld = call.rot => ret.value = d.normal

----------------------------------------------------------------------------
(* Properties of handleFrame, over the frames of Spec.                     *)

\* the estimations handed to fusePoses by the last frame
Fused == IF trace.fused = <<>> THEN <<>> ELSE trace.fused[1]

\* C7: every estimation handleFrame passes to fusePoses has the markerId of a
\* detection of that frame and of an entry of MARKER_DEFINITIONS; null results
\* do not reach fusePoses, and there are as many estimations as detections
\* resolved to an estimation.
C7_FusedComeFromKnownDetections ==
    trace.ran
        => /\ \A k \in 1..Len(Fused) :
                /\ Fused[k] # NULL
                /\ Fused[k].markerId \in KnownIds
                /\ \E j \in 1..Len(stateRef.detectedMarkers) :
                       stateRef.detectedMarkers[j].id = Fused[k].markerId
           /\ Len(Fused) <= Cardinality({j \in 1..Len(stateRef.detectedMarkers) :
                                            stateRef.detectedMarkers[j].id \in KnownIds})

\* a frame with a marker of the cube and a marker of no definition: one
\* estimation is fused
C7_Witness ==
    /\ trace.ran
    /\ Len(stateRef.detectedMarkers) = 2
    /\ stateRef.detectedMarkers[1].id = 5
    /\ stateRef.detectedMarkers[2].id = 0
    /\ Len(Fused) = 1
    /\ Fused[1].markerId = 0

\* C8 as claimed: resolving a marker never ends in a thrown fault, a solver
\* that raises makes estimateSingleMarkerPose return null to its caller.
C8_ResolverNeverThrows ==
    trace.ran => \A i \in 1..Len(trace.resolved) : ~trace.resolved[i].thrown

\* the markers of the last frame that contributed an estimation
Contributing ==
    {i \in 1..Len(trace.resolved) :
        ~trace.resolved[i].thrown /\ trace.resolved[i].value # NULL}

\* C8 amended: an OpenCV call (a Mat construction, solvePnP, or Rodrigues after
\* a successful solvePnP) that raises while a marker of the cube is resolved
\* makes estimateSingleMarkerPose raise to its caller; handleFrame
\* catches what it raises, logs it and takes null for that marker, which
\* contributes no estimation, and handleFrame goes on to the end of the frame.
C8_RaisedFaultIsCaughtByHandleFrame ==
    trace.ran
        => /\ \A i \in 1..Len(trace.resolved) :
                /\ trace.resolved[i].thrown
                       <=> (/\ stateRef.detectedMarkers[i].id \in KnownIds
                            /\ \/ trace.solver[i].faultAt \in 1..8
                               \/ trace.solver[i].faultAt = 9 /\ trace.solver[i].ok)
                /\ trace.resolved[i].thrown
                       => (trace.resolved[i].value = NULL /\ i \notin Contributing)
           /\ Len(Fused) = Cardinality(Contributing)
           /\ Cardinality({k \in 1..Len(trace.calls) : trace.calls[k] = "console.error"})
                  = Cardinality({i \in 1..Len(trace.resolved) : trace.resolved[i].thrown})
                        + (IF trace.detected.thrown THEN 1 ELSE 0)
           /\ trace.calls[Len(trace.calls)] = "onStateChange"

\* a frame with two markers of the cube: the solver raises for the first and
\* succeeds for the second, whose estimation alone is fused
C8_Witness ==
    /\ trace.ran
    /\ Len(trace.resolved) = 2
    /\ trace.solver[1].faultAt = 8
    /\ trace.resolved[1].thrown
    /\ ~trace.resolved[2].thrown
    /\ Len(Fused) = 1
    /\ poseResult # NULL

\* C13: the PoseResult published for a frame holds in detectedMarkerIds the
\* ids of all markers detected in that frame.
C13_PublishedIdsAreAllDetections ==
    (trace.ran /\ Len(Fused) > 0)
        => \A j \in 1..Len(stateRef.detectedMarkers) :
               \E k \in 1..Len(poseResult.detectedMarkerIds) :
                   poseResult.detectedMarkerIds[k] = stateRef.detectedMarkers[j].id

\* the detections of the last frame that the solver resolves: a marker of the
\* cube, no OpenCV call raising, solvePnP reporting success
Resolvable ==
    {i \in 1..Len(stateRef.detectedMarkers) :
        /\ stateRef.detectedMarkers[i].id \in KnownIds
        /\ trace.solver[i].faultAt = 0
        /\ trace.solver[i].ok}

\* C17: a marker that is not resolved (unknown id, solver failure, exception)
\* does not end the frame: every detection is taken through the resolver,
\* each resolvable one gives its estimation whatever happened to the others,
\* the estimations handed to fusePoses are exactly those of the resolvable
\* detections, in detection order, and the frame runs to onStateChange.
C17_FailedMarkerDoesNotAbortFrame ==
    (trace.ran /\ ~trace.detected.thrown)
        => /\ Len(trace.resolved) = Len(stateRef.detectedMarkers)
           /\ \A i \in 1..Len(trace.resolved) :
                IF i \in Resolvable
                THEN /\ ~trace.resolved[i].thrown
                     /\ trace.resolved[i].value # NULL
                     /\ trace.resolved[i].value.markerId = stateRef.detectedMarkers[i].id
                ELSE trace.resolved[i].thrown \/ trace.resolved[i].value = NULL
           /\ Len(Fused) = Cardinality(Resolvable)
           /\ \A i \in Resolvable :
                Fused[Cardinality({j \in Resolvable : j <= i})] = trace.resolved[i].value
           /\ trace.calls[Len(trace.calls)] = "onStateChange"

\* solvePnP raises for the first detection and the second is resolved and fused
C17_Witness ==
    /\ trace.ran
    /\ Len(stateRef.detectedMarkers) = 2
    /\ trace.solver[1].faultAt = 8
    /\ trace.resolved[1].thrown
    /\ stateRef.detectedMarkers[2].id = 1
    /\ Resolvable = {2}
    /\ Fused = <<trace.resolved[2].value>>
    /\ poseResult.detectedMarkerIds = <<1>>

\* the estimations resolved in the last frame
Resolved ==
    IF trace.ran
    THEN SelectSeq([i \in 1..Len(trace.resolved) |->
                       IF trace.resolved[i].thrown THEN NULL ELSE trace.resolved[i].value],
                   NotNull)
    ELSE <<>>

\* C19: a frame in which no marker resolves to an estimation leaves the shared
\* poseResult as it was (the PoseResult published before, or null): handleFrame
\* calls neither fusePoses nor updatePose in it, and the zero pose that
\* fusePoses gives for an empty list is never the published value.
C19_EmptyFrameKeepsPose ==
    /\ [][(frameNo' = frameNo + 1 /\ Resolved' = <<>>)
             => /\ poseResult' = poseResult
                /\ \A k \in 1..Len(trace'.calls) :
                       trace'.calls[k] \notin {"fusePoses", "updatePose"}]_vars
    /\ [](poseResult # NULL => poseResult.poses # <<>>)

\* the first frame published a pose; in the second the solver reported
\* failure for the only detection, and the pose of the first frame is kept
C19_Witness ==
    /\ frameNo = 2
    /\ trace.ran
    /\ Len(trace.resolved) = 1
    /\ ~trace.solver[1].ok
    /\ Resolved = <<>>
    /\ poseResult # NULL
    /\ poseResult.timestamp < clock

----------------------------------------------------------------------------
(* Properties of the frame loop, over the behaviours of SpecLoop.          *)

\* C18: the frame loop never queues or overlaps frames: processFrame requests
\* the next animation frame once, after onFrame has returned, and whatever
\* the interleaving of processFrame, commits that re-run the effects and
\* stopCamera, at most one animation-frame callback is pending.
C18_AtMostOneFramePending ==
    /\ Cardinality(pendingFrames) <= 1
    /\ Cardinality({k \in 1..Len(frameLog) : frameLog[k] = "requestAnimationFrame"}) <= 1
    /\ \A i, j \in 1..Len(frameLog) :
           (frameLog[i] = "onFrame" /\ frameLog[j] = "requestAnimationFrame") => i < j

\* a frame was handled and requested its successor, the effect was then
\* re-run and its request is the only one pending
C18_Witness ==
    /\ Len(frameLog) = 6
    /\ frameLog[4] = "onFrame"
    /\ frameLog[6] = "requestAnimationFrame"
    /\ loopEffect
    /\ nextId >= 3
    /\ pendingFrames = {[id |-> nextId, onFrame |-> onFrame]}

----------------------------------------------------------------------------
(* Properties of the callbacks of handleFrame, over the frames of Spec.    *)

\* how many times fn was called in the last frame
CallsOf(fn) == Cardinality({k \in 1..Len(trace.calls) : trace.calls[k] = fn})

\* C21: in every call of handleFrame: if cv is null or the ArUco API is not
\* available, neither updatePose nor onStateChange is called and stateRef is
\* unchanged, and the warning is logged at most once over all frames;
\* otherwise onStateChange is called exactly once with the detections of the
\* frame (the empty list if detectMarkers raised), updatePose is called at
\* most once, and before onStateChange.
C21_FrameCallbacks ==
    [][/\ warnedRef => warnedRef'
       /\ frameNo' = frameNo + 1 =>
            IF \/ cvRef = NULL
               \/ ~(/\ cvRef.aruco_ArucoDetector
                    /\ cvRef.aruco_Dictionary
                    /\ cvRef.aruco_DetectorParameters)
            THEN /\ stateRef' = stateRef
                 /\ poseResult' = poseResult
                 /\ CallsOf("updatePose")' = 0
                 /\ CallsOf("onStateChange")' = 0
                 /\ CallsOf("console.warn")' <= 1
                 /\ CallsOf("console.warn")' = 1 => (~warnedRef /\ warnedRef')
            ELSE /\ CallsOf("onStateChange")' = 1
                 /\ trace'.notified[1] = (IF trace'.detected.thrown THEN <<>>
                                          ELSE trace'.detected.value)
                 /\ stateRef'.detectedMarkers = trace'.notified[1]
                 /\ CallsOf("updatePose")' <= 1
                 /\ \A i, j \in 1..Len(trace'.calls) :
                        (trace'.calls[i] = "updatePose" /\ trace'.calls[j] = "onStateChange")
                            => i < j]_vars

\* the second frame with an OpenCV object that has no ArUco detector: the
\* warning of the first frame is not repeated and nothing is notified
C21_Witness ==
    /\ frameNo = 2
    /\ cvRef # NULL
    /\ ~cvRef.aruco_ArucoDetector
    /\ warnedRef
    /\ ~trace.ran
    /\ trace.calls = <<>>
    /\ stateRef = [detectedMarkers |-> <<>>, fps |-> 0]

----------------------------------------------------------------------------
(* Properties of the OpenCV loader, over the behaviours of SpecLoader.     *)

\* C22: the status of a provider starts at "loading" and changes at most
\* once, to "ready" or to "error"; after the change no interval is active and
\* status, cv and error stay as they are; cv is set exactly when status is
\* "ready" and error exactly when status is "error"; the document gets the
\* script tag at most once, however many providers are mounted.
C22_LoaderSettlesOnce ==
    /\ [](/\ phase = "rendered" => status = "loading"
          /\ status \in {"loading", "ready", "error"}
          /\ status # "loading" => timers = {}
          /\ loadedCv # NULL <=> status = "ready"
          /\ error # NULL <=> status = "error"
          /\ scriptTags <= 1)
    /\ [][mounts' = mounts =>
            /\ status' # status => (status = "loading" /\ status' \in {"ready", "error"})
            /\ status # "loading" =>
                   (status' = status /\ loadedCv' = loadedCv /\ error' = error)]_vars

\* the load timed out, the runtime became ready afterwards and the status is
\* still "error"; the second provider found the script tag of the first
C22_Witness ==
    /\ mounts = 2
    /\ phase = "mounted"
    /\ status = "error"
    /\ error = [message |-> "OpenCV.js initialization timed out"]
    /\ winCv = "ready"
    /\ loadedCv = NULL
    /\ timers = {}
    /\ scriptTags = 1

\* C23: while the provider stays mounted and its interval keeps firing, the
\* status leaves "loading": a tick within the load timeout that finds
\* window.cv.Mat makes it "ready", and it becomes "error" only after 15 s
\* without a cv object or after the 60 s load timeout.
C23_LoaderLeavesLoading ==
    /\ (phase = "mounted" /\ status = "loading")
           ~> (status # "loading" \/ phase # "mounted")
    /\ [][(phase = "mounted" /\ status = "loading") =>
            /\ status' = "ready" => (winCv = "ready" /\ elapsed' <= LOAD_TIMEOUT)
            /\ status' = "error" =>
                   \/ elapsed' > LOAD_TIMEOUT
                   \/ winCv = "none" /\ elapsed' > 15000
            /\ (elapsed' # elapsed /\ winCv = "ready" /\ elapsed' <= LOAD_TIMEOUT)
                   => status' = "ready"]_vars

\* window.cv appeared but its runtime never initialised: the load timed out
C23_Witness ==
    /\ phase = "mounted"
    /\ status = "error"
    /\ winCv = "object"
    /\ elapsed > LOAD_TIMEOUT
    /\ timers = {}

====
